---- MODULE Spec2Model ----
(***************************************************************************)
(* Charger uptime calculator (charger_uptime.py).                          *)
(*                                                                         *)
(* Three specifications over one set of variables:                         *)
(*   SpecMerge  merge_intervals applied to a bounded list of intervals     *)
(*   SpecCalc   calculate_station_uptime applied to a bounded charger      *)
(*              list and report list                                       *)
(*   Spec       the whole program: main() on a bounded input file          *)
(*                                                                         *)
(* Python tuples are TLA+ tuples: an interval is <<start, end>>, a report  *)
(* is <<charger_id, start_time, end_time, is_up>>, a result is             *)
(* <<station_id, uptime>>.  A line of the input file is the sequence of    *)
(* its whitespace-separated fields, each field a string.                   *)
(***************************************************************************)
EXTENDS Integers, Sequences, FiniteSets, TLC

VARIABLES
    pc,           \* position of the running call / of main()
    arg,          \* merge_intervals: the list as the caller passed it
    intervals,    \* merge_intervals: the argument list (sorted in place)
    merged,       \* merge_intervals: the returned list
    charger_ids,  \* calculate_station_uptime: the station's charger list
    reports,      \* the report list (shared by every station's computation)
    period,       \* what get_station_reporting_period returned
    uptime,       \* what calculate_station_uptime returned (a call record)
    argv_len,     \* len(sys.argv)
    file,         \* the input file: "missing", "undecodable" or its lines
    stations,     \* the dict station_id -> charger_ids, in insertion order
    parsed,       \* the report list as parse_input_file returned it
    results,      \* main: the list of (station_id, uptime)
    idx,          \* main: how many stations the loop has processed
    calc_calls,   \* main: calls of calculate_station_uptime so far
    stdout,       \* lines printed
    exit_status   \* process exit status (-1 while running)

vars == <<pc, arg, intervals, merged, charger_ids, reports, period, uptime,
          argv_len, file, stations, parsed, results, idx, calc_calls,
          stdout, exit_status>>

\* ------------------------------------------------------------------ bounds

MaxTime == 4
MaxTick == 3
MaxIntervals == 3
MaxReports == 2
MaxStationLines == 2
MaxReportLines == 2


RECURSIVE SeqsUpTo(_, _)
SeqsUpTo(S, n) ==
    IF n = 0 THEN {<<>>}
    ELSE LET shorter == SeqsUpTo(S, n - 1)
         IN  shorter \cup {Append(s, x) : s \in {t \in shorter : Len(t) = n - 1}, x \in S}

\* ----------------------------------------------------------- Python helpers

Max(a, b) == IF a >= b THEN a ELSE b
Min(a, b) == IF a <= b THEN a ELSE b

\* Python's ordering of 2-tuples of integers (lexicographic).
TupleLess(a, b) == a[1] < b[1] \/ (a[1] = b[1] /\ a[2] < b[2])

RECURSIVE SortedInsert(_, _)
SortedInsert(x, s) ==
    IF s = <<>> THEN <<x>>
    ELSE IF TupleLess(x, Head(s)) THEN <<x>> \o s
    ELSE <<Head(s)>> \o SortedInsert(x, Tail(s))

RECURSIVE SortedFrom(_, _)
SortedFrom(done, rest) ==
    IF rest = <<>> THEN done
    ELSE SortedFrom(SortedInsert(Head(rest), done), Tail(rest))

\* A mutant of ListSort: the list is left in the order it had.
ListSortSkipped(list) == list

\* list.sort() on a list of 2-tuples: ascending, lexicographic.
ListSort(list) == SortedFrom(<<>>, list)

\* ------------------------------------------------------------ merge_intervals

\* A mutant of Mergeable: touching intervals are not merged.
MergeableStrict(current_start, last_end) == current_start < last_end

\* charger_uptime.py:131  if current_start <= last_end
Mergeable(current_start, last_end) == current_start <= last_end

\* A mutant of ExtendedEnd: the max is forgotten.
ExtendedEndNoMax(last_end, current_end) == current_end

\* charger_uptime.py:133  max(last_end, current_end)
ExtendedEnd(last_end, current_end) == Max(last_end, current_end)

\* charger_uptime.py:128-136, the loop over intervals[1:]
RECURSIVE MergeScan(_, _)
MergeScan(acc, rest) ==
    IF rest = <<>> THEN acc
    ELSE LET current == Head(rest)
             last    == acc[Len(acc)]
         IN  IF Mergeable(current[1], last[2])
             THEN MergeScan([acc EXCEPT ![Len(acc)] =
                                <<last[1], ExtendedEnd(last[2], current[2])>>],
                            Tail(rest))
             ELSE MergeScan(Append(acc, current), Tail(rest))

\* A mutant of merge_intervals: the list is sorted but nothing is merged.
merge_intervals_unmerged(list) == ListSort(list)

\* charger_uptime.py:117-138; the argument after the call is ListSort(list).
merge_intervals(list) ==
    IF list = <<>> THEN <<>>
    ELSE LET sorted == ListSort(list)
         IN  MergeScan(<<sorted[1]>>, Tail(sorted))

\* ----------------------------------------------- get_station_reporting_period

\* Python's None and a set value, for min_start / max_end.
None == [none |-> TRUE, v |-> 0]
Some(x) == [none |-> FALSE, v |-> x]

\* set(charger_ids)
ChargerSet(ids) == {ids[i] : i \in DOMAIN ids}

\* A mutant of CountsForPeriod: only "up" reports move the window.
CountsForPeriodUpOnly(report, station_chargers) ==
    report[1] \in station_chargers /\ report[4]

\* charger_uptime.py:105  if charger_id in station_chargers
CountsForPeriod(report, station_chargers) == report[1] \in station_chargers

\* charger_uptime.py:104-109, the loop over reports
RECURSIVE PeriodScan(_, _, _, _)
PeriodScan(station_chargers, rest, min_start, max_end) ==
    IF rest = <<>> THEN <<min_start, max_end>>
    ELSE LET r  == Head(rest)
             hit == CountsForPeriod(r, station_chargers)
             mn == IF hit /\ (min_start.none \/ r[2] < min_start.v)
                   THEN Some(r[2]) ELSE min_start
             mx == IF hit /\ (max_end.none \/ r[3] > max_end.v)
                   THEN Some(r[3]) ELSE max_end
         IN  PeriodScan(station_chargers, Tail(rest), mn, mx)

\* charger_uptime.py:92-114
get_station_reporting_period(station_id, ids, rs) ==
    LET found == PeriodScan(ChargerSet(ids), rs, None, None)
    IN  IF found[1].none \/ found[2].none THEN <<0, 0>>
        ELSE <<found[1].v, found[2].v>>

\* ---------------------------------------------------- calculate_station_uptime

\* A mutant of ZeroLengthPeriod: the early return is never taken.
ZeroLengthPeriodIgnored(period_start, period_end) == FALSE

\* charger_uptime.py:152  if period_start == period_end
ZeroLengthPeriod(period_start, period_end) == period_start = period_end

\* charger_uptime.py:159-162, the up intervals of the station's chargers
RECURSIVE UpIntervals(_, _)
UpIntervals(station_chargers, rest) ==
    IF rest = <<>> THEN <<>>
    ELSE LET r == Head(rest)
         IN  (IF r[1] \in station_chargers /\ r[4] THEN <<(<<r[2], r[3]>>)>> ELSE <<>>)
             \o UpIntervals(station_chargers, Tail(rest))

\* charger_uptime.py:168-175, the clipped durations summed
RECURSIVE TotalUptime(_, _, _)
TotalUptime(rest, period_start, period_end) ==
    IF rest = <<>> THEN 0
    ELSE LET clipped_start == Max(Head(rest)[1], period_start)
             clipped_end   == Min(Head(rest)[2], period_end)
         IN  (IF clipped_start < clipped_end THEN clipped_end - clipped_start ELSE 0)
             + TotalUptime(Tail(rest), period_start, period_end)

\* A mutant of UptimePercentage: rounds to nearest instead of down.
UptimePercentageRounded(total_uptime, total_period) ==
    (total_uptime * 200 + total_period) \div (2 * total_period)

\* charger_uptime.py:178  (total_uptime * 100) // total_period
UptimePercentage(total_uptime, total_period) ==
    (total_uptime * 100) \div total_period

\* What a call that has not happened leaves behind.
NoCall == [ret |-> 0, raised |-> "none", merge_calls |-> 0,
           up_intervals |-> <<>>, merged_up_intervals |-> <<>>,
           total_uptime |-> 0, total_period |-> 0]

\* charger_uptime.py:141-179, one call, with what it computed on the way:
\* ret is the returned value, raised the exception that ended the call
\* ("none" when it returned), merge_calls the calls of merge_intervals,
\* up_intervals the local list after merge_intervals sorted it in place.
UptimeCall(station_id, ids, rs) ==
    LET p            == get_station_reporting_period(station_id, ids, rs)
        period_start == p[1]
        period_end   == p[2]
    IN  IF ZeroLengthPeriod(period_start, period_end) THEN NoCall
        ELSE LET total_period == period_end - period_start
                 ups          == UpIntervals(ChargerSet(ids), rs)
                 mgd          == merge_intervals(ups)
                 total_uptime == TotalUptime(mgd, period_start, period_end)
             IN  [ret      |-> IF total_period = 0 THEN 0
                               ELSE UptimePercentage(total_uptime, total_period),
                  raised   |-> IF total_period = 0 THEN "ZeroDivisionError" ELSE "none",
                  merge_calls |-> 1,
                  up_intervals |-> ListSort(ups),
                  merged_up_intervals |-> mgd,
                  total_uptime |-> total_uptime,
                  total_period |-> total_period]

calculate_station_uptime(station_id, ids, rs) == UptimeCall(station_id, ids, rs).ret

\* A mutant of ReportsAfterUptime: the call drains the station's reports
\* from the shared list.
ReportsAfterUptimeDrained(ids, rs) ==
    SelectSeq(rs, LAMBDA r : r[1] \notin ChargerSet(ids))

\* charger_uptime.py:159-165: the caller's report list after the call.  The
\* function only iterates it; what merge_intervals sorts is the local
\* up_intervals list built by append.
ReportsAfterUptime(ids, rs) == rs

\* ------------------------------------------------------------ parse_input_file

\* The fields the model's input files are written with.  int(field) succeeds
\* on the decimal literals and raises ValueError on every other field.
IntOf == ("0" :> 0) @@ ("1" :> 1) @@ ("2" :> 2) @@ ("3" :> 3) @@
         ("1001" :> 1001) @@ ("1002" :> 1002) @@ ("1003" :> 1003)
IsIntLiteral(field) == field \in DOMAIN IntOf

\* str.lower() on the fields that hold a letter.
LowerOf == ("TRUE" :> "true") @@ ("true" :> "true") @@ ("false" :> "false") @@
           ("x" :> "x") @@ ("[Stations]" :> "[stations]") @@
           ("[Charger" :> "[charger") @@ ("Availability" :> "availability") @@
           ("Reports]" :> "reports]")
Lower(field) == IF field \in DOMAIN LowerOf THEN LowerOf[field] ELSE field

StationsHdr == <<"[Stations]">>
ReportsHdr == <<"[Charger", "Availability", "Reports]">>
BlankLine == <<>>

\* charger_uptime.py:29  the stripped lines that are not blank
NonBlankLines(all) == SelectSeq(all, LAMBDA l : l # BlankLine)

\* charger_uptime.py:36-44: <<stations_start, reports_start>>, Python's
\* 0-based positions, -1 for a header that was not found; the scan stops at
\* the reports header.
RECURSIVE SectionScan(_, _, _, _)
SectionScan(lines, i, stations_start, reports_start) ==
    IF i >= Len(lines) THEN <<stations_start, reports_start>>
    ELSE IF lines[i + 1] = StationsHdr
         THEN SectionScan(lines, i + 1, i + 1, reports_start)
    ELSE IF lines[i + 1] = ReportsHdr
         THEN <<stations_start, i + 1>>
    ELSE SectionScan(lines, i + 1, stations_start, reports_start)

\* stations[station_id] = charger_ids on a dict kept in insertion order: a
\* key already present keeps its place and takes the new value.
DictSet(dict, key, value) ==
    IF \E k \in DOMAIN dict : dict[k][1] = key
    THEN [k \in DOMAIN dict |-> IF dict[k][1] = key THEN <<key, value>> ELSE dict[k]]
    ELSE Append(dict, <<key, value>>)

ParseError == [outcome |-> "ERROR", stations |-> <<>>, reports |-> <<>>]

\* charger_uptime.py:53-64, for i in range(i, stop) over the station lines
RECURSIVE ParseStations(_, _, _, _)
ParseStations(lines, i, stop, dict) ==
    IF i >= stop THEN [outcome |-> "ok", stations |-> dict, reports |-> <<>>]
    ELSE LET parts == lines[i + 1]
         IN  IF Len(parts) < 2 THEN ParseError
             ELSE IF \E k \in DOMAIN parts : ~IsIntLiteral(parts[k]) THEN ParseError
             ELSE ParseStations(lines, i + 1, stop,
                     DictSet(dict, IntOf[parts[1]],
                             [k \in 1..(Len(parts) - 1) |-> IntOf[parts[k + 1]]]))

\* charger_uptime.py:80  if start_time >= end_time
StartNotBeforeEnd(start_time, end_time) == start_time >= end_time

\* charger_uptime.py:69-87, for i in range(i, len(lines)) over the report lines
RECURSIVE ParseReports(_, _, _)
ParseReports(lines, i, list) ==
    IF i >= Len(lines) THEN [outcome |-> "ok", stations |-> <<>>, reports |-> list]
    ELSE LET parts == lines[i + 1]
         IN  IF Len(parts) # 4 THEN ParseError
             ELSE IF \E k \in 1..3 : ~IsIntLiteral(parts[k]) THEN ParseError
             ELSE IF StartNotBeforeEnd(IntOf[parts[2]], IntOf[parts[3]]) THEN ParseError
             ELSE ParseReports(lines, i + 1,
                     Append(list, <<IntOf[parts[1]], IntOf[parts[2]], IntOf[parts[3]],
                                    Lower(parts[4]) = "true">>))

\* charger_uptime.py:14-89.  outcome is "ok" (stations and reports returned),
\* "ERROR" (ERROR printed, sys.exit(1)) or "UnicodeDecodeError": f.read()
\* raises it on bytes that are not text in the default encoding, and the
\* handler of line 25 catches FileNotFoundError and IOError only.
parse_input_file(f) ==
    IF f.status = "missing" THEN ParseError
    ELSE IF f.status = "undecodable"
         THEN [outcome |-> "UnicodeDecodeError", stations |-> <<>>, reports |-> <<>>]
    ELSE LET lines == NonBlankLines(f.lines)
             found == SectionScan(lines, 0, -1, -1)
         IN  IF Len(lines) < 2 THEN ParseError
             ELSE IF found[1] = -1 \/ found[2] = -1 THEN ParseError
             ELSE LET st == ParseStations(lines, found[1], found[2] - 1, <<>>)
                      rp == ParseReports(lines, found[2], <<>>)
                  IN  IF st.outcome # "ok" THEN ParseError
                      ELSE IF rp.outcome # "ok" THEN ParseError
                      ELSE [outcome |-> "ok", stations |-> st.stations,
                            reports |-> rp.reports]

\* charger_uptime.py:193-195
AllStationChargers(dict) == UNION {ChargerSet(dict[k][2]) : k \in DOMAIN dict}

\* charger_uptime.py:197-204: some reported charger belongs to no station.
UnknownCharger(dict, rs) ==
    \E i \in DOMAIN rs : rs[i][1] \notin AllStationChargers(dict)

\* ------------------------------------------------------------ the three runs

\* Values of the variables a run does not use.
MergeIdle == arg = <<>> /\ intervals = <<>> /\ merged = <<>>
CalcIdle == charger_ids = <<>> /\ period = <<0, 0>> /\ uptime = NoCall
MainIdle ==
    /\ argv_len = 2 /\ file = [status |-> "ok", lines |-> <<>>]
    /\ stations = <<>> /\ results = <<>> /\ idx = 0 /\ calc_calls = 0
    /\ stdout = <<>> /\ exit_status = -1

\* Intervals and reports with start < end (charger_uptime.py:80 rejects the rest).
Intervals == {i \in (0..MaxTime) \X (0..MaxTime) : i[1] < i[2]}
ChargerIds == {1001, 1002}
ValidReports == {r \in (ChargerIds \X (0..MaxTick) \X (0..MaxTick) \X BOOLEAN) : r[2] < r[3]}
ChargerLists == {<<>>, <<1001>>, <<1002>>, <<1001, 1002>>}

\* --- merge_intervals on its own
InitMerge ==
    /\ pc = "merge_call"
    /\ arg \in SeqsUpTo(Intervals, MaxIntervals)
    /\ intervals = arg /\ merged = <<>>
    /\ reports = <<>> /\ parsed = <<>>
    /\ CalcIdle /\ MainIdle

\* charger_uptime.py:117-138: the call returns, its argument sorted in place.
MergeIntervals ==
    /\ pc = "merge_call"
    /\ merged' = merge_intervals(intervals)
    /\ intervals' = ListSort(intervals)
    /\ pc' = "merge_return"
    /\ UNCHANGED <<arg, charger_ids, reports, period, uptime, argv_len, file,
                   stations, parsed, results, idx, calc_calls, stdout, exit_status>>

NextMerge == MergeIntervals
SpecMerge == InitMerge /\ [][NextMerge]_vars

\* --- calculate_station_uptime on its own
InitCalc ==
    /\ pc = "uptime_call"
    /\ charger_ids \in ChargerLists
    /\ reports \in SeqsUpTo(ValidReports, MaxReports)
    /\ parsed = reports
    /\ period = <<0, 0>> /\ uptime = NoCall
    /\ MergeIdle /\ MainIdle

\* charger_uptime.py:141-179: one call for the station with charger_ids.
CalculateStationUptime ==
    /\ pc = "uptime_call"
    /\ period' = get_station_reporting_period(0, charger_ids, reports)
    /\ uptime' = UptimeCall(0, charger_ids, reports)
    /\ reports' = ReportsAfterUptime(charger_ids, reports)
    /\ pc' = "uptime_return"
    /\ UNCHANGED <<arg, intervals, merged, charger_ids, argv_len, file,
                   stations, parsed, results, idx, calc_calls, stdout, exit_status>>

NextCalc == CalculateStationUptime
SpecCalc == InitCalc /\ [][NextCalc]_vars

\* --- the whole program

\* The lines of STDOUT.
ErrorLine == [kind |-> "ERROR"]
ResultLine(result) == [kind |-> "result", station_id |-> result[1], uptime |-> result[2]]

StationLineMenu ==
    { <<"0", "1001">>, <<"1", "1002">>, <<"1", "1001">>, <<"0", "1001", "1002">>,
      <<"1">>, <<"x", "1001">> }
ReportLineMenu ==
    { <<"1001", "0", "2", "TRUE">>, <<"1002", "1", "3", "false">>,
      <<"1002", "0", "1", "true">>, <<"1003", "0", "1", "true">>,
      <<"1001", "2", "2", "true">>, <<"1001", "0", "1">>,
      <<"1001", "x", "1", "true">> }

\* Files with both headers and a blank line between the sections.
SectionedFiles ==
    { <<StationsHdr>> \o st \o <<BlankLine, ReportsHdr>> \o rp :
        st \in SeqsUpTo(StationLineMenu, MaxStationLines),
        rp \in SeqsUpTo(ReportLineMenu, MaxReportLines) }

\* A header missing, the reports header first, a header inside the reports
\* section, a second [Stations] header, a single line, an empty file.
OtherFiles ==
    { <<>>,
      <<StationsHdr>>,
      <<StationsHdr, <<"0", "1001">>, <<"1001", "0", "2", "true">> >>,
      << <<"0", "1001">>, ReportsHdr, <<"1001", "0", "2", "true">> >>,
      <<ReportsHdr, StationsHdr, <<"0", "1001">> >>,
      <<StationsHdr, <<"0", "1001">>, ReportsHdr, StationsHdr>>,
      <<StationsHdr, <<"0", "1001">>, StationsHdr, <<"1", "1002">>, ReportsHdr,
        <<"1002", "0", "1", "true">> >> }

Init ==
    /\ pc = "start"
    /\ \/ argv_len \in {1, 3} /\ file = [status |-> "ok", lines |-> <<>>]
       \/ argv_len = 2 /\ file \in [status : {"missing", "undecodable"}, lines : {<<>>}]
       \/ argv_len = 2 /\ file \in [status : {"ok"}, lines : SectionedFiles \cup OtherFiles]
    /\ stations = <<>> /\ reports = <<>> /\ parsed = <<>>
    /\ results = <<>> /\ idx = 0 /\ calc_calls = 0
    /\ stdout = <<>> /\ exit_status = -1
    /\ MergeIdle /\ CalcIdle

\* print("ERROR"); sys.exit(1)
ExitWithError ==
    /\ stdout' = Append(stdout, ErrorLine)
    /\ exit_status' = 1
    /\ pc' = "exited"
    /\ UNCHANGED <<arg, intervals, merged, charger_ids, reports, period, uptime,
                   argv_len, file, stations, parsed, results, idx, calc_calls>>

\* charger_uptime.py:183-185
WrongArgumentCount ==
    /\ pc = "start"
    /\ argv_len # 2
    /\ ExitWithError

\* charger_uptime.py:190, parse_input_file printing ERROR and exiting
InputRejected ==
    /\ pc = "start"
    /\ argv_len = 2
    /\ parse_input_file(file).outcome = "ERROR"
    /\ ExitWithError

\* charger_uptime.py:190, parse_input_file ending in an exception nothing
\* catches: the traceback goes to STDERR and the interpreter exits with 1.
InputUndecodable ==
    /\ pc = "start"
    /\ argv_len = 2
    /\ parse_input_file(file).outcome = "UnicodeDecodeError"
    /\ exit_status' = 1
    /\ pc' = "crashed"
    /\ UNCHANGED <<arg, intervals, merged, charger_ids, reports, period, uptime,
                   argv_len, file, stations, parsed, results, idx, calc_calls, stdout>>

\* charger_uptime.py:192-204
ChargerRejected ==
    /\ pc = "start"
    /\ argv_len = 2
    /\ LET p == parse_input_file(file)
       IN  p.outcome = "ok" /\ UnknownCharger(p.stations, p.reports)
    /\ ExitWithError

\* charger_uptime.py:190-207, the input parsed and validated
InputAccepted ==
    /\ pc = "start"
    /\ argv_len = 2
    /\ LET p == parse_input_file(file)
       IN  /\ p.outcome = "ok"
           /\ ~UnknownCharger(p.stations, p.reports)
           /\ stations' = p.stations
           /\ reports' = p.reports
           /\ parsed' = p.reports
    /\ results' = <<>>
    /\ idx' = 0
    /\ pc' = "loop"
    /\ UNCHANGED <<arg, intervals, merged, charger_ids, period, uptime,
                   argv_len, file, calc_calls, stdout, exit_status>>

\* charger_uptime.py:208-210, one turn of the loop over stations.items()
StationUptime ==
    /\ pc = "loop"
    /\ idx < Len(stations)
    /\ LET station_id == stations[idx + 1][1]
           ids        == stations[idx + 1][2]
           call       == UptimeCall(station_id, ids, reports)
       IN  /\ charger_ids' = ids
           /\ period' = get_station_reporting_period(station_id, ids, reports)
           /\ uptime' = call
           /\ reports' = ReportsAfterUptime(ids, reports)
           /\ results' = Append(results, <<station_id, call.ret>>)
    /\ idx' = idx + 1
    /\ calc_calls' = calc_calls + 1
    /\ UNCHANGED <<pc, arg, intervals, merged, argv_len, file, stations, parsed,
                   stdout, exit_status>>

\* charger_uptime.py:212-215, results.sort() and one line printed per result
PrintResults ==
    /\ pc = "loop"
    /\ idx = Len(stations)
    /\ results' = ListSort(results)
    /\ stdout' = stdout \o [k \in DOMAIN results |-> ResultLine(ListSort(results)[k])]
    /\ exit_status' = 0
    /\ pc' = "done"
    /\ UNCHANGED <<arg, intervals, merged, charger_ids, reports, period, uptime,
                   argv_len, file, stations, parsed, idx, calc_calls>>

Next ==
    \/ WrongArgumentCount
    \/ InputRejected
    \/ InputUndecodable
    \/ ChargerRejected
    \/ InputAccepted
    \/ StationUptime
    \/ PrintResults

Spec == Init /\ [][Next]_vars

\* ------------------------------------------------------------------ claims

\* The integer points a list of half-open intervals covers.
Points(list) == UNION {list[i][1]..(list[i][2] - 1) : i \in DOMAIN list}

\* The reports of a station's chargers, as positions in the report list.
StationReports(ids, rs) == {i \in DOMAIN rs : rs[i][1] \in ChargerSet(ids)}

SetMin(S) == CHOOSE x \in S : \A y \in S : x <= y
SetMax(S) == CHOOSE x \in S : \A y \in S : x >= y

\* The ticks of the window [w_start, w_end) that some up report of the station covers.
UpTicks(ids, rs, w_start, w_end) ==
    {t \in w_start..(w_end - 1) :
        \E i \in StationReports(ids, rs) : rs[i][4] /\ rs[i][2] <= t /\ t < rs[i][3]}

\* C1: for a station with at least one report, calculate_station_uptime
\* returns floor(U * 100 / (W_end - W_start)), W the min start and max end over
\* the station's reports and U the number of ticks of W covered by at least
\* one up report of the station (each tick counted once).
C1_UptimeIsCoveredFraction ==
    (pc = "uptime_return" /\ StationReports(charger_ids, parsed) # {}) =>
        LET mine    == StationReports(charger_ids, parsed)
            w_start == SetMin({parsed[i][2] : i \in mine})
            w_end   == SetMax({parsed[i][3] : i \in mine})
            U       == Cardinality(UpTicks(charger_ids, parsed, w_start, w_end))
        IN  /\ uptime.raised = "none"
            /\ 100 * U >= uptime.ret * (w_end - w_start)
            /\ 100 * U < (uptime.ret + 1) * (w_end - w_start)

\* Up 1 tick over a window of 3 gives 33; two overlapping up reports count once.
C1_Witness ==
    /\ pc = "uptime_return"
    /\ charger_ids = <<1001, 1002>>
    /\ parsed = << <<1001, 0, 1, TRUE>>, <<1002, 0, 3, FALSE>> >>
    /\ uptime.ret = 33

\* C2: the value calculate_station_uptime returns is an integer in 0..100, for
\* every charger list (the empty one included), and the summed clipped up
\* time never exceeds the window span.
C2_PercentageInRange ==
    pc = "uptime_return" =>
        /\ uptime.ret \in 0..100
        /\ uptime.total_uptime >= 0
        /\ uptime.total_uptime <= uptime.total_period

\* Two chargers up over overlapping ranges that together cover the window.
C2_Witness ==
    /\ pc = "uptime_return"
    /\ charger_ids = <<1001, 1002>>
    /\ parsed = << <<1001, 0, 2, TRUE>>, <<1002, 1, 3, TRUE>> >>
    /\ uptime.ret = 100
    /\ uptime.total_uptime = 3

\* C4: when no report belongs to any of the station's chargers,
\* calculate_station_uptime returns 0 normally: nothing is raised, nothing is
\* divided by zero, and merge_intervals is not called.
C4_NoReportsGivesZero ==
    (pc = "uptime_return" /\ StationReports(charger_ids, parsed) = {}) =>
        /\ uptime.ret = 0
        /\ uptime.raised = "none"
        /\ uptime.merge_calls = 0

\* A station whose charger has no report while another charger has an up one.
C4_Witness ==
    /\ pc = "uptime_return"
    /\ charger_ids = <<1001>>
    /\ parsed = << <<1002, 0, 2, TRUE>> >>
    /\ uptime.ret = 0

C7_MergeKeepsUnion ==
    pc = "merge_return" =>
        /\ Points(merged) = Points(arg)
        /\ (arg = <<>> => merged = <<>>)

\* Unsorted, overlapping, with a duplicate and a contained interval.
C7_Witness ==
    /\ pc = "merge_return"
    /\ arg = << <<1, 2>>, <<0, 3>>, <<1, 2>> >>
    /\ merged = << <<0, 3>> >>

\* C8: the list merge_intervals returns is sorted by start with
\* merged[i].end < merged[i+1].start for every consecutive pair; two inputs
\* that touch end up in one output interval.
C8_MergedStrictlyApart ==
    pc = "merge_return" =>
        /\ \A i \in 1..(Len(merged) - 1) :
              /\ merged[i][1] < merged[i + 1][1]
              /\ merged[i][2] < merged[i + 1][1]
        /\ \A i, j \in DOMAIN arg :
              arg[i][2] = arg[j][1] =>
                 \E k \in DOMAIN merged :
                    merged[k][1] <= arg[i][1] /\ arg[j][2] <= merged[k][2]

\* Two touching intervals merged into one, a third kept apart by a gap.
C8_Witness ==
    /\ pc = "merge_return"
    /\ arg = << <<3, 4>>, <<1, 2>>, <<0, 1>> >>
    /\ merged = << <<0, 2>>, <<3, 4>> >>

\* What parse_input_file makes of the input file of the run.
Parsed == parse_input_file(file)

\* C3: for an accepted input the output holds exactly one (station_id,
\* percentage) line for each station id of the station mapping, stations
\* without any report included, in strictly ascending station_id order
\* whatever the order of the stations in the input.
C3_OneLinePerStationAscending ==
    pc = "done" =>
        LET ids == {Parsed.stations[k][1] : k \in DOMAIN Parsed.stations}
        IN  /\ Len(stdout) = Cardinality(ids)
            /\ \A i \in DOMAIN stdout : stdout[i].kind = "result"
            /\ {stdout[i].station_id : i \in DOMAIN stdout} = ids
            /\ \A i \in 1..(Len(stdout) - 1) :
                  stdout[i].station_id < stdout[i + 1].station_id
            /\ \A i \in DOMAIN stdout : \E k \in DOMAIN Parsed.stations :
                  /\ Parsed.stations[k][1] = stdout[i].station_id
                  /\ stdout[i].uptime = calculate_station_uptime(
                         Parsed.stations[k][1], Parsed.stations[k][2], Parsed.reports)

\* Station 1 before station 0 in the file, station 1 without any report.
C3_Witness ==
    /\ pc = "done"
    /\ stations = << <<1, <<1002>> >>, <<0, <<1001>> >> >>
    /\ parsed = << <<1001, 0, 2, TRUE>> >>
    /\ stdout = << [kind |-> "result", station_id |-> 0, uptime |-> 100],
                   [kind |-> "result", station_id |-> 1, uptime |-> 0] >>

\* C5: every rejected input ends the run with exactly the one line ERROR on
\* the output and a non-zero exit status, and no run both prints a station
\* result and ERROR.
C5_RejectedEndsInError ==
    /\ pc \in {"exited", "crashed"} => (stdout = <<ErrorLine>> /\ exit_status # 0)
    /\ ~(\E i, j \in DOMAIN stdout : stdout[i].kind = "ERROR" /\ stdout[j].kind = "result")

\* Two stations of the parsed input list the same charger.
SharedCharger(dict) ==
    \E i, j \in DOMAIN dict :
        i # j /\ ChargerSet(dict[i][2]) \cap ChargerSet(dict[j][2]) # {}

\* C6: an input in which a charger id is in the charger list of more than one
\* station is rejected before any uptime is computed: ERROR, and
\* calculate_station_uptime is never called.
C6_SharedChargerRejected ==
    (argv_len = 2 /\ Parsed.outcome = "ok" /\ SharedCharger(Parsed.stations)) =>
        /\ calc_calls = 0
        /\ pc # "done"

\* C10: computing a station's uptime leaves the report list and the station
\* mapping as parsed (same elements, same order), so whatever the order of
\* the stations each percentage is the one computed for that station alone
\* on the original input.
C10_InputUntouched ==
    pc \in {"loop", "done"} =>
        /\ reports = Parsed.reports
        /\ stations = Parsed.stations
        /\ \A k \in DOMAIN results : \E j \in DOMAIN stations :
              results[k] = <<stations[j][1],
                             calculate_station_uptime(stations[j][1], stations[j][2],
                                                      Parsed.reports)>>

\* Both stations computed, station 1 first; the unsorted reports are as parsed.
C10_Witness ==
    /\ pc = "done"
    /\ calc_calls = 2
    /\ stations = << <<1, <<1002>> >>, <<0, <<1001>> >> >>
    /\ reports = << <<1002, 1, 3, FALSE>>, <<1001, 0, 2, TRUE>> >>
    /\ results = << <<0, 100>>, <<1, 0>> >>

====
